---- MODULE Spec2Model ----
(***************************************************************************)
(* Model of the xc markdown task parser (src/parser/parser.go).            *)
(*                                                                         *)
(* A Go string is a sequence of one-character strings, so that trimming,   *)
(* splitting and prefix tests are computed the way the strings package     *)
(* computes them.  The input reader is the sequence `doc` of lines that    *)
(* bufio.Scanner delivers; after the last line Scanner.Scan() reports      *)
(* false, either at plain end of input or because the reader failed.       *)
(***************************************************************************)
EXTENDS Integers, Sequences, FiniteSets, TLC

VARIABLES
    doc,              \* the lines the reader holds (input of NewParser)
    heading,          \* the target heading (input of NewParser)
    pos,              \* number of lines bufio.Scanner has delivered
    scanErr,          \* scanner.Err() # nil
    currentLine,      \* parser.currentLine
    nextLine,         \* parser.nextLine
    reachedEnd,       \* parser.reachedEnd
    rootHeadingLevel, \* parser.rootHeadingLevel
    tasks,            \* parser.tasks
    currTask,         \* parser.currTask
    ok,               \* the ok result of parseTaskBody / parseTask
    err,              \* the error in flight (err of parseTask / NewParser)
    result,           \* what NewParser+Parse returned: [tasks, err]
    prev,             \* outcome of the parse of the previous document
    pc                \* position in NewParser / Parse

vars == <<doc, heading, pos, scanErr, currentLine, nextLine, reachedEnd,
          rootHeadingLevel, tasks, currTask, ok, err, result, prev, pc>>

-----------------------------------------------------------------------------
(* Bounds of the model.                                                    *)

\* longest enumerated input document, in lines
MaxLines == 4
\* cap on the entries of one list field of a task (a body loop that does
\* not advance appends for ever)
MaxList == 5

-----------------------------------------------------------------------------
(* Strings.                                                                *)

\* unicode.IsSpace on the characters used here
SpaceChars == {" ", "\t"}
IsSpace(c) == c \in SpaceChars

\* the backtick character (the module's lexer admits no backtick in a string)
BQ == "BACKQUOTE"

\* const trimValues: underscore, star, backtick, space
trimValues == {"_", "*", BQ, " "}

\* strings.TrimLeft(s, cutset)
RECURSIVE TrimLeft(_, _)
TrimLeft(s, cutset) ==
    IF s = <<>> THEN <<>>
    ELSE IF Head(s) \in cutset THEN TrimLeft(Tail(s), cutset)
    ELSE s

\* strings.TrimRight(s, cutset)
RECURSIVE TrimRight(_, _)
TrimRight(s, cutset) ==
    IF s = <<>> THEN <<>>
    ELSE IF s[Len(s)] \in cutset THEN TrimRight(SubSeq(s, 1, Len(s) - 1), cutset)
    ELSE s

\* strings.TrimSpace
TrimSpace(s) == TrimRight(TrimLeft(s, SpaceChars), SpaceChars)

\* strings.Trim(s, trimValues)
Trim(s) == TrimRight(TrimLeft(s, trimValues), trimValues)

\* strings.Fields: the maximal runs of non-space characters
RECURSIVE FieldsFrom(_, _, _)
FieldsFrom(s, word, acc) ==
    IF s = <<>> THEN (IF word = <<>> THEN acc ELSE Append(acc, word))
    ELSE IF IsSpace(Head(s))
         THEN FieldsFrom(Tail(s), <<>>, IF word = <<>> THEN acc ELSE Append(acc, word))
         ELSE FieldsFrom(Tail(s), Append(word, Head(s)), acc)

Fields(s) == FieldsFrom(s, <<>>, <<>>)

\* strings.Join(ws, " ")
RECURSIVE Join(_)
Join(ws) ==
    IF ws = <<>> THEN <<>>
    ELSE IF Len(ws) = 1 THEN ws[1]
    ELSE ws[1] \o <<" ">> \o Join(Tail(ws))

\* strings.Count(s, c)
Count(s, c) == Cardinality({i \in 1..Len(s) : s[i] = c})

\* index of the first c in s, 0 when there is none
IndexOf(s, c) ==
    IF \E i \in 1..Len(s) : s[i] = c
    THEN CHOOSE i \in 1..Len(s) : s[i] = c /\ \A j \in 1..(i - 1) : s[j] # c
    ELSE 0

\* strings.Cut(s, sep)
Cut(s, sep) ==
    LET i == IndexOf(s, sep) IN
    IF i = 0 THEN [before |-> s, after |-> <<>>, found |-> FALSE]
    ELSE [before |-> SubSeq(s, 1, i - 1), after |-> SubSeq(s, i + 1, Len(s)), found |-> TRUE]

\* strings.Split(s, sep): always at least one element
RECURSIVE Split(_, _)
Split(s, sep) ==
    LET c == Cut(s, sep) IN
    IF c.found THEN <<c.before>> \o Split(c.after, sep) ELSE <<s>>

Upper == <<"A", "B", "C", "D", "E", "F", "G", "H", "I", "J", "K", "L", "M",
           "N", "O", "P", "Q", "R", "S", "T", "U", "V", "W", "X", "Y", "Z">>
Lower == <<"a", "b", "c", "d", "e", "f", "g", "h", "i", "j", "k", "l", "m",
           "n", "o", "p", "q", "r", "s", "t", "u", "v", "w", "x", "y", "z">>

ToLowerChar(c) ==
    IF \E i \in 1..Len(Upper) : Upper[i] = c
    THEN Lower[CHOOSE i \in 1..Len(Upper) : Upper[i] = c]
    ELSE c

\* strings.ToLower
RECURSIVE ToLower(_)
ToLower(s) == IF s = <<>> THEN <<>> ELSE <<ToLowerChar(Head(s))>> \o ToLower(Tail(s))

\* strings.EqualFold on the characters used here
EqualFold(a, b) == ToLower(a) = ToLower(b)

\* len(t) >= 3 and t[:3] is the triple-backtick fence
HasFencePrefix(t) == Len(t) >= 3 /\ SubSeq(t, 1, 3) = <<BQ, BQ, BQ>>

\* stringOnlyContains(input, matcher)
stringOnlyContains(input, matcher) ==
    IF Len(input) = 0 THEN FALSE
    ELSE \A i \in 1..Len(input) : input[i] = matcher

-----------------------------------------------------------------------------
(* Values.                                                                 *)

\* models.Task{}
EmptyTask ==
    [Name |-> <<>>, Description |-> <<>>, Script |-> <<>>, Env |-> <<>>,
     Dir |-> <<>>, DependsOn |-> <<>>, Inputs |-> <<>>]

\* a nil error
NoErr == [kind |-> "nil", task |-> <<>>, wrapped |-> FALSE]

\* var ErrNoTasksHeading = errors.New("no xc block found")
ErrNoTasksHeading == [kind |-> "ErrNoTasksHeading", task |-> <<>>, wrapped |-> FALSE]

\* fmt.Errorf("directory appears more than once for %s", name)
ErrDuplicateDirectory(name) == [kind |-> "DuplicateDirectory", task |-> name, wrapped |-> FALSE]

\* fmt.Errorf("command block already exists for task %s", name)
ErrDuplicateCodeBlock(name) == [kind |-> "DuplicateCodeBlock", task |-> name, wrapped |-> FALSE]

\* fmt.Errorf("command block in task %s was not ended", name)
ErrUnterminatedCodeBlock(name) == [kind |-> "UnterminatedCodeBlock", task |-> name, wrapped |-> FALSE]

\* fmt.Errorf("task %s has no commands or required tasks", name)
ErrEmptyTask(name) == [kind |-> "EmptyTask", task |-> name, wrapped |-> FALSE]

\* fmt.Errorf("failed to read file: %w", p.scanner.Err()); wrapped tells
\* whether the wrapped scanner error is non-nil
ErrFailedToReadFile(e) == [kind |-> "FailedToReadFile", task |-> <<>>, wrapped |-> e]

-----------------------------------------------------------------------------
(* Line Cursor.                                                            *)

\* the cursor fields of the parser, and the scanner under them
Cursor ==
    [currentLine |-> currentLine, nextLine |-> nextLine, pos |-> pos,
     reachedEnd |-> reachedEnd, scanErr |-> scanErr]

\* p.scan(); e tells, for the call of scanner.Scan() that reports false,
\* whether the reader failed (TRUE) or ended (FALSE)
scan(c, e) ==
    IF c.reachedEnd THEN [ok |-> FALSE, c |-> c]
    ELSE IF c.pos >= Len(doc)
         THEN [ok |-> TRUE,
               c |-> [c EXCEPT !.currentLine = c.nextLine, !.reachedEnd = TRUE,
                               !.scanErr = e]]
         ELSE [ok |-> TRUE,
               c |-> [c EXCEPT !.currentLine = c.nextLine,
                               !.nextLine = doc[c.pos + 1], !.pos = c.pos + 1]]

-----------------------------------------------------------------------------
(* Heading Recognizer.                                                     *)

\* p.parseAltHeading(advance)
parseAltHeading(c, advance, e) ==
    LET t == TrimSpace(c.currentLine)
        n == TrimSpace(c.nextLine)
        dash == stringOnlyContains(n, "-")
        eq == stringOnlyContains(n, "=")
        found == dash \/ eq
    IN  [ok |-> found,
         level |-> IF eq THEN 1 ELSE IF dash THEN 2 ELSE 0,
         text |-> IF found THEN t ELSE <<>>,
         c |-> IF advance /\ found THEN scan(scan(c, e).c, e).c ELSE c]

\* p.parseHeading(advance)
parseHeading(c, advance, e) ==
    LET a == parseAltHeading(c, advance, e)
        t == TrimSpace(c.currentLine)
        s == Fields(t)
    IN  IF a.ok THEN a
        ELSE IF Len(s) < 2 \/ Len(s[1]) < 1 \/ Count(s[1], "#") # Len(s[1])
        THEN [ok |-> FALSE, level |-> 0, text |-> <<>>, c |-> c]
        ELSE [ok |-> TRUE, level |-> Len(s[1]), text |-> Join(Tail(s)),
              c |-> IF advance THEN scan(c, e).c ELSE c]

-----------------------------------------------------------------------------
(* Attribute Classifier.                                                   *)

\* var attMap
attMap ==
    (<<"r", "e", "q">> :> "AttributeTypeReq")
    @@ (<<"r", "e", "q", "u", "i", "r", "e", "s">> :> "AttributeTypeReq")
    @@ (<<"e", "n", "v">> :> "AttributeTypeEnv")
    @@ (<<"e", "n", "v", "i", "r", "o", "n", "m", "e", "n", "t">> :> "AttributeTypeEnv")
    @@ (<<"d", "i", "r">> :> "AttributeTypeDir")
    @@ (<<"d", "i", "r", "e", "c", "t", "o", "r", "y">> :> "AttributeTypeDir")
    @@ (<<"i", "n", "p", "u", "t", "s">> :> "AttributeTypeInp")

\* for _, v := range vs { append(field, strings.Trim(v, trimValues)) }
RECURSIVE AppendTrimmed(_, _)
AppendTrimmed(field, vs) ==
    IF vs = <<>> THEN field
    ELSE AppendTrimmed(Append(field, Trim(Head(vs))), Tail(vs))

\* if p.currTask.Dir != "" (the second-assignment test of parseAttribute)
DirAlreadySet(task) == task.Dir # <<>>

\* p.parseAttribute()
parseAttribute(c, task, e) ==
    LET cut == Cut(c.currentLine, ":")
        key == ToLower(Trim(cut.before))
        no == [ok |-> FALSE, err |-> NoErr, c |-> c, task |-> task]
    IN  IF ~cut.found THEN no
        ELSE IF key \notin DOMAIN attMap THEN no
        ELSE LET ty == attMap[key]
                 vs == Split(cut.after, ",")
             IN  IF ty = "AttributeTypeDir" /\ DirAlreadySet(task)
                 THEN [no EXCEPT !.err = ErrDuplicateDirectory(task.Name)]
                 ELSE [ok |-> TRUE, err |-> NoErr, c |-> scan(c, e).c,
                       task |->
                         CASE ty = "AttributeTypeInp" ->
                                [task EXCEPT !.Inputs = AppendTrimmed(@, vs)]
                           [] ty = "AttributeTypeReq" ->
                                [task EXCEPT !.DependsOn = AppendTrimmed(@, vs)]
                           [] ty = "AttributeTypeEnv" ->
                                [task EXCEPT !.Env = AppendTrimmed(@, vs)]
                           [] ty = "AttributeTypeDir" ->
                                [task EXCEPT !.Dir = Trim(cut.after)]]

-----------------------------------------------------------------------------
(* Code Block Extractor.                                                   *)

\* a block loop that keeps the blank lines of the block
RECURSIVE codeBlockLoop_KeepBlank(_, _, _)
codeBlockLoop_KeepBlank(c, script, e) ==
    LET s == scan(c, e) IN
    IF ~s.ok THEN [ended |-> FALSE, c |-> s.c, script |-> script]
    ELSE IF HasFencePrefix(s.c.currentLine)
         THEN [ended |-> TRUE, c |-> s.c, script |-> script]
         ELSE codeBlockLoop_KeepBlank(s.c, script \o s.c.currentLine \o <<"\n">>, e)

\* the loop "for p.scan() { ... }" of parseCodeBlock
RECURSIVE codeBlockLoop(_, _, _)
codeBlockLoop(c, script, e) ==
    LET s == scan(c, e) IN
    IF ~s.ok THEN [ended |-> FALSE, c |-> s.c, script |-> script]
    ELSE IF HasFencePrefix(s.c.currentLine)
         THEN [ended |-> TRUE, c |-> s.c, script |-> script]
         ELSE codeBlockLoop(s.c,
                  IF TrimSpace(s.c.currentLine) # <<>>
                  THEN script \o s.c.currentLine \o <<"\n">>
                  ELSE script,
                  e)

\* p.parseCodeBlock()
parseCodeBlock(c, task, e) ==
    IF ~HasFencePrefix(c.currentLine)
    THEN [err |-> NoErr, c |-> c, task |-> task]
    ELSE IF Len(task.Script) > 0
    THEN [err |-> ErrDuplicateCodeBlock(task.Name), c |-> c, task |-> task]
    ELSE LET r == codeBlockLoop(c, task.Script, e)
             t == [task EXCEPT !.Script = r.script]
         IN  IF ~r.ended
             THEN [err |-> ErrUnterminatedCodeBlock(task.Name), c |-> r.c, task |-> t]
             ELSE [err |-> NoErr, c |-> scan(r.c, e).c, task |-> t]

-----------------------------------------------------------------------------
(* Inputs.                                                                 *)

L_root == <<"#", " ", "t", "a", "s", "k", "s">>
L_Root == <<"#", " ", "T", "a", "s", "k", "s">>
L_build == <<"#", "#", " ", "b", "u", "i", "l", "d">>
L_req == <<"r", "e", "q", ":", " ", "t", "e", "s", "t">>
L_blank == <<>>
L_fence == <<BQ, BQ, BQ>>
L_dir == <<"d", "i", "r", ":", " ", "x">>
L_star == <<"#", "#", " ", "*">>
L_other == <<"#", " ", "O", "t", "h", "e", "r">>
L_dash == <<"-", "-", "-">>
L_deep == <<"#", "#", "#", " ", "d", "e", "e", "p">>
L_echo == <<"e", "c", "h", "o", " ", "h", "i">>
L_ab == <<"#", "#", " ", "a", " ", " ", "b">>

\* the lines the enumerated documents are made of
Pool == {L_root, L_build, L_req, L_blank, L_fence, L_dir, L_star, L_other,
         L_dash, L_deep}

\* "# Tasks\n## build\nreq: test\n\n```\necho hi\n```\n"
ExampleDoc == <<L_Root, L_build, L_req, L_blank, L_fence, L_echo, L_fence>>

H_Tasks == <<"T", "a", "s", "k", "s">>
H_empty == <<>>

\* the target heading of the documents
Headings == {H_Tasks}

\* target headings, the empty one among them
AnyHeadings == {H_Tasks, H_empty}

SeqsUpTo(S, n) == UNION {[1..k -> S] : k \in 0..n}

Docs == SeqsUpTo(Pool, MaxLines) \cup {ExampleDoc}

NoResult == [set |-> FALSE, tasks |-> <<>>, err |-> NoErr]

-----------------------------------------------------------------------------
(* What the documents contain, read off the text alone.                    *)

\* line l is a marker heading: two or more words, the first all "#"
IsMarkerHeadingLine(l) ==
    LET s == Fields(TrimSpace(l)) IN
    Len(s) >= 2 /\ \A i \in 1..Len(s[1]) : s[1][i] = "#"

\* line l, trimmed, is made only of "-" or only of "="
IsUnderline(l) ==
    LET n == TrimSpace(l) IN
    n # <<>> /\ ((\A i \in 1..Len(n) : n[i] = "-") \/ (\A i \in 1..Len(n) : n[i] = "="))

\* lines i, i+1 of d are an underline heading: non-empty text, then underline
IsUnderlineHeadingAt(d, i) ==
    i < Len(d) /\ TrimSpace(d[i]) # <<>> /\ IsUnderline(d[i + 1])

\* a heading (underline form first, then marker form) starts at line i of d
IsHeadingAt(d, i) == IsUnderlineHeadingAt(d, i) \/ IsMarkerHeadingLine(d[i])

HeadingTextAt(d, i) ==
    IF IsUnderlineHeadingAt(d, i) THEN TrimSpace(d[i])
    ELSE Join(Tail(Fields(TrimSpace(d[i]))))

HeadingLevelAt(d, i) ==
    IF IsUnderlineHeadingAt(d, i)
    THEN (IF TrimSpace(d[i + 1])[1] = "=" THEN 1 ELSE 2)
    ELSE Len(Fields(TrimSpace(d[i]))[1])

\* line i of d starts a heading whose trimmed text equals the target,
\* ignoring case
IsTargetHeadingAt(d, i) ==
    IsHeadingAt(d, i) /\ ToLower(TrimSpace(HeadingTextAt(d, i))) = ToLower(TrimSpace(heading))

HasTargetHeading == \E i \in 1..Len(doc) : IsTargetHeadingAt(doc, i)

FirstTargetHeading ==
    CHOOSE i \in 1..Len(doc) :
        IsTargetHeadingAt(doc, i) /\ \A j \in 1..(i - 1) : ~IsTargetHeadingAt(doc, j)

\* number of dir:/directory: lines of the document
DirLineCount ==
    Cardinality({i \in 1..Len(doc) :
        LET c == Cut(doc[i], ":") IN
        c.found /\ ToLower(Trim(c.before)) \in {<<"d", "i", "r">>,
                      <<"d", "i", "r", "e", "c", "t", "o", "r", "y">>}})

-----------------------------------------------------------------------------
(* Task Assembly Driver.                                                   *)

SetCursor(c) ==
    /\ currentLine' = c.currentLine
    /\ nextLine' = c.nextLine
    /\ pos' = c.pos
    /\ reachedEnd' = c.reachedEnd
    /\ scanErr' = c.scanErr

\* the state NewParser starts from: bufio.NewScanner(r) and a zero parser
Fresh ==
    /\ pos = 0
    /\ scanErr = FALSE
    /\ currentLine = <<>>
    /\ nextLine = <<>>
    /\ reachedEnd = FALSE
    /\ rootHeadingLevel = 0
    /\ tasks = <<>>
    /\ currTask = EmptyTask
    /\ ok = TRUE
    /\ err = NoErr
    /\ result = NoResult
    /\ pc = "NewParser"

Init ==
    /\ doc \in Docs
    /\ heading \in Headings
    /\ prev = NoResult
    /\ Fresh

\* the same documents, parsed for any of the target headings
InitAnyTarget ==
    /\ doc \in Docs
    /\ heading \in AnyHeadings
    /\ prev = NoResult
    /\ Fresh

\* strings.EqualFold(strings.TrimSpace(text), strings.TrimSpace(heading))
MatchesTarget(text) == EqualFold(TrimSpace(text), TrimSpace(heading))

\* one iteration of "for p.scan() { ... }" in NewParser, or its exit
NewParserStep ==
    /\ pc = "NewParser"
    /\ \E e \in BOOLEAN :
         LET s == scan(Cursor, e) IN
         IF ~s.ok
         THEN /\ SetCursor(s.c)
              /\ err' = ErrNoTasksHeading
              /\ result' = [set |-> TRUE, tasks |-> tasks, err |-> ErrNoTasksHeading]
              /\ pc' = "Done"
              /\ UNCHANGED rootHeadingLevel
         ELSE LET h == parseHeading(s.c, TRUE, e) IN
              /\ SetCursor(h.c)
              /\ IF h.ok /\ MatchesTarget(h.text)
                 THEN rootHeadingLevel' = h.level /\ pc' = "parseTask"
                 ELSE UNCHANGED rootHeadingLevel /\ pc' = pc
              /\ UNCHANGED <<err, result>>
    /\ UNCHANGED <<doc, heading, prev, tasks, currTask, ok>>

\* parseTask: p.currTask = models.Task{}
ParseTaskBegin ==
    /\ pc = "parseTask"
    /\ currTask' = EmptyTask
    /\ pc' = "findTaskHeading"
    /\ UNCHANGED <<doc, heading, prev, pos, scanErr, currentLine, nextLine,
                   reachedEnd, rootHeadingLevel, tasks, ok, err, result>>

\* one iteration of the loop of findTaskHeading, and what parseTask does
\* with its result
FindTaskHeadingStep ==
    /\ pc = "findTaskHeading"
    /\ \E e \in BOOLEAN :
         LET h == parseHeading(Cursor, TRUE, e) IN
         IF ~h.ok \/ h.level > rootHeadingLevel + 1
         THEN LET s == scan(h.c, e) IN
              /\ SetCursor(s.c)
              /\ IF ~s.ok
                 THEN /\ err' = ErrFailedToReadFile(s.c.scanErr)
                      /\ ok' = FALSE
                      /\ pc' = "Return"
                 ELSE UNCHANGED <<err, ok, pc>>
              /\ UNCHANGED currTask
         ELSE IF h.level <= rootHeadingLevel
         THEN /\ SetCursor(h.c)
              /\ ok' = FALSE
              /\ pc' = "Return"
              /\ UNCHANGED <<err, currTask>>
         ELSE /\ SetCursor(h.c)
              /\ currTask' = [currTask EXCEPT !.Name = Trim(h.text)]
              /\ pc' = "parseTaskBody"
              /\ UNCHANGED <<err, ok>>
    /\ UNCHANGED <<doc, heading, prev, rootHeadingLevel, tasks, result>>

\* a description fallback that leaves heading lines out
WithDescription_SkipHeadings(task, line) ==
    IF TrimSpace(line) # <<>> /\ ~IsMarkerHeadingLine(line)
    THEN [task EXCEPT !.Description = Append(@, Trim(line))]
    ELSE task

\* the description fallback of parseTaskBody
WithDescription(task, line) ==
    IF TrimSpace(line) # <<>>
    THEN [task EXCEPT !.Description = Append(@, Trim(line))]
    ELSE task

\* one iteration of the loop of parseTaskBody, and on an error the return
\* of parseTask
ParseTaskBodyStep ==
    /\ pc = "parseTaskBody"
    /\ Len(currTask.DependsOn) < MaxList
    /\ Len(currTask.Env) < MaxList
    /\ Len(currTask.Inputs) < MaxList
    /\ \E e \in BOOLEAN :
         LET a == parseAttribute(Cursor, currTask, e) IN
         IF a.ok
         THEN /\ SetCursor(a.c)
              /\ currTask' = a.task
              /\ UNCHANGED <<ok, err, pc>>
         ELSE IF a.err # NoErr
         THEN /\ err' = a.err
              /\ ok' = FALSE
              /\ pc' = "Return"
              /\ SetCursor(a.c)
              /\ currTask' = a.task
         ELSE LET b == parseCodeBlock(Cursor, currTask, e) IN
              IF b.err # NoErr
              THEN /\ err' = b.err
                   /\ ok' = FALSE
                   /\ pc' = "Return"
                   /\ SetCursor(b.c)
                   /\ currTask' = b.task
              ELSE LET h == parseHeading(b.c, FALSE, e) IN
                   IF h.ok /\ h.level <= rootHeadingLevel
                   THEN /\ ok' = FALSE
                        /\ pc' = "parseTaskValidate"
                        /\ SetCursor(b.c)
                        /\ currTask' = b.task
                        /\ UNCHANGED err
                   ELSE IF h.ok /\ h.level = rootHeadingLevel + 1
                   THEN /\ ok' = TRUE
                        /\ pc' = "parseTaskValidate"
                        /\ SetCursor(b.c)
                        /\ currTask' = b.task
                        /\ UNCHANGED err
                   ELSE LET s == scan(b.c, e) IN
                        /\ currTask' = WithDescription(b.task, b.c.currentLine)
                        /\ SetCursor(s.c)
                        /\ IF ~s.ok
                           THEN ok' = FALSE /\ pc' = "parseTaskValidate"
                           ELSE UNCHANGED <<ok, pc>>
                        /\ UNCHANGED err
    /\ UNCHANGED <<doc, heading, prev, rootHeadingLevel, tasks, result>>

\* a validation that forgets the dependencies
TaskHasNothing_ScriptOnly(task) == Len(task.Script) < 1

\* len(p.currTask.Script) < 1 && len(p.currTask.DependsOn) < 1
TaskHasNothing(task) == Len(task.Script) < 1 /\ Len(task.DependsOn) < 1

\* parseTask after parseTaskBody returned without error: validate, append
ParseTaskValidate ==
    /\ pc = "parseTaskValidate"
    /\ IF TaskHasNothing(currTask)
       THEN /\ err' = ErrEmptyTask(currTask.Name)
            /\ pc' = "Return"
            /\ UNCHANGED tasks
       ELSE /\ tasks' = Append(tasks, currTask)
            /\ pc' = IF ok THEN "parseTask" ELSE "Return"
            /\ UNCHANGED err
    /\ UNCHANGED <<doc, heading, prev, pos, scanErr, currentLine, nextLine,
                   reachedEnd, rootHeadingLevel, currTask, ok, result>>

\* what Parse hands back once its loop is left
ParseResult(ts, er) == [set |-> TRUE, tasks |-> ts, err |-> er]

\* Parse: the loop is left; tasks = p.tasks; return
ParseReturn ==
    /\ pc = "Return"
    /\ result' = ParseResult(tasks, err)
    /\ pc' = "Done"
    /\ UNCHANGED <<doc, heading, prev, pos, scanErr, currentLine, nextLine,
                   reachedEnd, rootHeadingLevel, tasks, currTask, ok, err>>

Next ==
    \/ NewParserStep
    \/ ParseTaskBegin
    \/ FindTaskHeadingStep
    \/ ParseTaskBodyStep
    \/ ParseTaskValidate
    \/ ParseReturn

Spec == Init /\ [][Next]_vars

SpecAnyTarget == InitAnyTarget /\ [][Next]_vars

-----------------------------------------------------------------------------
(* The same document with one marker task heading rewritten in the         *)
(* underline form, parsed by a fresh parser after the first parse.         *)

\* the lines of the documents whose headings are rewritten
AltPool == {L_ab, L_build, L_req, L_blank}

\* a level-1 marker root heading, then lines of AltPool
AltDocs == {<<L_root>> \o b : b \in SeqsUpTo(AltPool, MaxLines - 1)}

InitAlt ==
    /\ doc \in AltDocs
    /\ heading = H_Tasks
    /\ prev = NoResult
    /\ Fresh

\* line i of d, below the root heading of line 1, is a marker heading "## T"
IsMarkerTaskHeading(d, i) ==
    /\ i > 1
    /\ IsMarkerHeadingLine(d[i])
    /\ Fields(TrimSpace(d[i]))[1] = <<"#", "#">>

\* the text T of the marker heading "## T"
MarkerHeadingText(l) == TrimSpace(SubSeq(TrimSpace(l), 3, Len(TrimSpace(l))))

\* d with the marker heading of line i replaced by T and a line of "-"
Underlined(d, i) ==
    SubSeq(d, 1, i - 1) \o <<MarkerHeadingText(d[i]), L_dash>> \o SubSeq(d, i + 1, Len(d))

\* NewParser on the rewritten document, once Parse has returned on the
\* original one; prev keeps what it returned
NewParserUnderlined ==
    /\ pc = "Done"
    /\ ~prev.set
    /\ \E i \in 1..Len(doc) :
         /\ IsMarkerTaskHeading(doc, i)
         /\ doc' = Underlined(doc, i)
    /\ prev' = result
    /\ pos' = 0
    /\ scanErr' = FALSE
    /\ currentLine' = <<>>
    /\ nextLine' = <<>>
    /\ reachedEnd' = FALSE
    /\ rootHeadingLevel' = 0
    /\ tasks' = <<>>
    /\ currTask' = EmptyTask
    /\ ok' = TRUE
    /\ err' = NoErr
    /\ result' = NoResult
    /\ pc' = "NewParser"
    /\ UNCHANGED heading

NextAlt == Next \/ NewParserUnderlined

SpecAlt == InitAlt /\ [][NextAlt]_vars

-----------------------------------------------------------------------------
(* Documents of one task: the root heading, the task heading "## build",   *)
(* then body lines.                                                        *)

\* longest enumerated task body, in lines
MaxBody == 6

L_env2 == <<"e", "n", "v", ":", " ", "a", ",", "b">>

\* the lines the task bodies are made of
BodyPool == {L_fence, L_blank, L_req, L_env2}

BodyDocs == {<<L_Root, L_build>> \o b : b \in SeqsUpTo(BodyPool, MaxBody)}

InitBody ==
    /\ doc \in BodyDocs
    /\ heading = H_Tasks
    /\ prev = NoResult
    /\ Fresh

SpecBody == InitBody /\ [][Next]_vars

\* the lines of the single task's body
BodyLines == SubSeq(doc, 3, Len(doc))

\* the indices of the lines of d that begin with a fence
FenceLines(d) == {i \in 1..Len(d) : HasFencePrefix(d[i])}

\* name of the task of these documents
N_build == <<"b", "u", "i", "l", "d">>

-----------------------------------------------------------------------------
(* Claims.                                                                 *)

\* C1: whenever Parse returns a non-nil error, the task list it returns is
\* empty (no partial list beside an error).
C1_AllOrNothing ==
    (pc = "Done" /\ result.err # NoErr) => result.tasks = <<>>

\* C2: every iteration of the task-body loop either consumes a line (a
\* successful advance of the cursor) or leaves the loop.
C2_BodyLoopAdvances ==
    [][(pc = "parseTaskBody" /\ pc' = "parseTaskBody")
          => (pos' # pos \/ reachedEnd' # reachedEnd)]_vars

\* C3: a document with no heading whose trimmed text equals the target
\* (ignoring case) makes NewParser return ErrNoTasksHeading and no task.
C3_NoSectionFound ==
    ~HasTargetHeading =>
        \/ pc = "NewParser"
        \/ (pc = "Done" /\ result.err = ErrNoTasksHeading /\ result.tasks = <<>>)

\* C4: a document that has a heading matching the target makes NewParser
\* return no error, with rootHeadingLevel the level of the first such heading.
C4_RootDiscovery ==
    (HasTargetHeading /\ pc # "NewParser") =>
        /\ result.err # ErrNoTasksHeading
        /\ rootHeadingLevel = HeadingLevelAt(doc, FirstTargetHeading)

\* C5: the example document with target "Tasks" yields no error and exactly
\* one task: Name "build", DependsOn ["test"], Script "echo hi\n",
\* Description [].
C5_Example ==
    (pc = "Done" /\ doc = ExampleDoc /\ heading = H_Tasks) =>
        /\ result.err = NoErr
        /\ result.tasks =
             << [Name |-> <<"b", "u", "i", "l", "d">>,
                 Description |-> <<>>,
                 Script |-> <<"e", "c", "h", "o", " ", "h", "i", "\n">>,
                 Env |-> <<>>,
                 Dir |-> <<>>,
                 DependsOn |-> << <<"t", "e", "s", "t">> >>,
                 Inputs |-> <<>>] >>

\* C6: when a task body ends without error the task is appended iff its
\* Script or its DependsOn is non-empty, otherwise the parse fails with the
\* empty-task error; so every task of the list has a Script or a dependency.
C6_TaskValidation ==
    /\ [](\A i \in 1..Len(tasks) :
             tasks[i].Script # <<>> \/ tasks[i].DependsOn # <<>>)
    /\ [][pc = "parseTaskValidate" =>
            IF currTask.Script # <<>> \/ currTask.DependsOn # <<>>
            THEN tasks' = Append(tasks, currTask) /\ err' = NoErr
            ELSE /\ tasks' = tasks
                 /\ err' = [kind |-> "EmptyTask", task |-> currTask.Name, wrapped |-> FALSE]
                 /\ pc' = "Return"]_vars

\* C6 witness: a task with a dependency and no script was appended, and a
\* later task with neither made the parse fail.
C6_Witness ==
    /\ pc = "Done"
    /\ result.err.kind = "EmptyTask"
    /\ Len(result.tasks) = 1
    /\ result.tasks[1].Script = <<>>
    /\ result.tasks[1].DependsOn # <<>>

\* C7: every task appended to Tasks has a non-empty Name.
C7_NameNonEmpty ==
    \A i \in 1..Len(tasks) : tasks[i].Name # <<>>

\* C8: under a level-1 root heading, the document with a marker task heading
\* "## T" and the document with that heading in the underline form give the
\* identical outcome of Parse (same error, same task list).
C8_HeadingSyntaxesInterchangeable ==
    (pc = "Done" /\ prev.set) =>
        /\ result.err.kind = prev.err.kind
        /\ result.err.task = prev.err.task
        /\ result.tasks = prev.tasks

\* C9: a document with a single dir:/directory: line never fails with the
\* directory-appears-more-than-once error.
C9_DirSingleAssignment ==
    err.kind = "DuplicateDirectory" => DirLineCount >= 2

\* C10: the parse returns the failed-to-read-file error if and only if the
\* input source reported a read error.
C10_ReadFailure ==
    pc = "Done" => (result.err.kind = "FailedToReadFile" <=> scanErr)

\* C11: a task body that contains a second fenced block (a third fence line:
\* open, close, open) makes the parse fail with the command-block-already-
\* exists error naming the task, whatever the first block holds.
C11_SecondBlockRejected ==
    (pc = "Done" /\ Cardinality(FenceLines(BodyLines)) >= 3) =>
        /\ result.err.kind = "DuplicateCodeBlock"
        /\ result.err.task = N_build


\* the values an attribute line of the task documents lists, trimmed, in
\* left-to-right order
ReqValuesOf(l) == IF l = L_req THEN << <<"t", "e", "s", "t">> >> ELSE << >>
EnvValuesOf(l) == IF l = L_env2 THEN << <<"a">>, <<"b">> >> ELSE << >>

RECURSIVE ExpectedReq(_)
ExpectedReq(d) == IF d = << >> THEN << >> ELSE ReqValuesOf(Head(d)) \o ExpectedReq(Tail(d))

RECURSIVE ExpectedEnv(_)
ExpectedEnv(d) == IF d = << >> THEN << >> ELSE EnvValuesOf(Head(d)) \o ExpectedEnv(Tail(d))

IsPrefix(s, t) == Len(s) <= Len(t) /\ SubSeq(t, 1, Len(s)) = s

\* C12: in a task body without fenced blocks every req and env line is
\* applied exactly once: at every moment the task's DependsOn and Env are a
\* prefix of the values of the body's req and env lines in document order
\* (N trimmed entries per line, cumulative), and a parse that ends without
\* error returns the task with exactly those values.
C12_AttributeAppliedOnce ==
    FenceLines(BodyLines) = {} =>
        /\ IsPrefix(currTask.DependsOn, ExpectedReq(BodyLines))
        /\ IsPrefix(currTask.Env, ExpectedEnv(BodyLines))
        /\ (pc = "Done" /\ result.err = NoErr /\ Len(result.tasks) = 1) =>
              /\ result.tasks[1].DependsOn = ExpectedReq(BodyLines)
              /\ result.tasks[1].Env = ExpectedEnv(BodyLines)


\* the current line is a marker heading nested deeper than a task heading,
\* and it is not the text of an underline heading
DeepHeadingIsCurrent ==
    /\ IsMarkerHeadingLine(currentLine)
    /\ Len(Fields(TrimSpace(currentLine))[1]) > rootHeadingLevel + 1
    /\ ~(~reachedEnd /\ IsUnderline(nextLine))

\* the step moved the parser forward by one line
OneLineConsumed ==
    \/ pos' = pos + 1 /\ currentLine' = nextLine /\ reachedEnd' = reachedEnd
    \/ ~reachedEnd /\ reachedEnd' /\ pos' = pos /\ currentLine' = nextLine

\* C13: when the body loop meets a heading deeper than rootLevel+1, the
\* line, trimmed of the decoration set, is appended to the Description of
\* the task being assembled, no task is opened or closed, and, unless the
\* input is already exhausted, one line is consumed and the body goes on
\* with the same task.
C13_DeepHeadingIsDescription ==
    [][(pc = "parseTaskBody" /\ DeepHeadingIsCurrent) =>
          /\ currTask' = [currTask EXCEPT !.Description = Append(@, Trim(currentLine))]
          /\ tasks' = tasks
          /\ err' = err
          /\ (~reachedEnd => pc' = "parseTaskBody" /\ OneLineConsumed)
          /\ (reachedEnd => pc' = "parseTaskValidate")]_vars

\* a deep heading has just become the last Description entry of the open
\* task and the body loop goes on
C13_Witness ==
    /\ pc = "parseTaskBody"
    /\ currTask.Name = N_build
    /\ currTask.Description # << >>
    /\ currTask.Description[Len(currTask.Description)] = L_deep
    /\ currentLine # L_deep


\* C14: a body whose only fence line opens a block that nothing closes ends
\* the parse with the was-not-ended error naming the task, and that error
\* never comes out of a body in which every opening fence has its closing
\* fence (an even number of fence lines).
C14_UnterminatedBlock ==
    pc = "Done" =>
        /\ Cardinality(FenceLines(BodyLines)) = 1 =>
              result.err = ErrUnterminatedCodeBlock(N_build)
        /\ result.err.kind = "UnterminatedCodeBlock" =>
              /\ result.err.task = N_build
              /\ Cardinality(FenceLines(BodyLines)) % 2 = 1


\* the index in doc of the current line, once the parser is in a task body
CurIdx == IF reachedEnd THEN pos ELSE pos - 1

\* a line of white space only
IsBlankLine(l) == \A i \in 1..Len(l) : l[i] \in {" ", "\t"}

\* the non-blank lines of d from line i up to the next fence line, each
\* followed by a newline
RECURSIVE ExpectedScript(_, _)
ExpectedScript(d, i) ==
    IF i > Len(d) \/ HasFencePrefix(d[i]) THEN << >>
    ELSE (IF IsBlankLine(d[i]) THEN << >> ELSE d[i] \o <<"\n">>)
         \o ExpectedScript(d, i + 1)

\* the current line opens a block that the parser accepts: the task has no
\* script yet and a closing fence follows
BlockIsAccepted ==
    /\ pc = "parseTaskBody"
    /\ HasFencePrefix(currentLine)
    /\ currTask.Script = << >>
    /\ \E j \in FenceLines(doc) : j > CurIdx

\* C15: the body step that accepts a fenced block sets Script to the
\* block's non-blank lines between the two fences, verbatim, in order, each
\* followed by a newline, without the fence lines and without the blank
\* lines; a body step on any other line leaves Script as it is.
C15_ScriptOfBlock ==
    [][/\ BlockIsAccepted =>
             /\ currTask'.Script = ExpectedScript(doc, CurIdx + 1)
             /\ err' = NoErr
       /\ (pc = "parseTaskBody" /\ ~HasFencePrefix(currentLine)) =>
             currTask'.Script = currTask.Script]_vars

\* an accepted block with a blank line between two command lines
C15_Witness ==
    /\ pc = "Done"
    /\ result.err = NoErr
    /\ BodyLines = <<L_fence, L_req, L_blank, L_env2, L_fence>>
    /\ Len(result.tasks) = 1
    /\ result.tasks[1].Script = L_req \o <<"\n">> \o L_env2 \o <<"\n">>


\* documents that start with the root heading "# tasks" and hold neither
\* underlines nor fences: every heading is a marker heading
SectionDoc ==
    /\ doc # << >>
    /\ doc[1] = L_root
    /\ \A i \in 1..Len(doc) : ~IsUnderline(doc[i]) /\ ~HasFencePrefix(doc[i])

\* the number of marks of a marker heading line
MarkerLevel(l) == Len(Fields(TrimSpace(l))[1])

\* the lines after the root heading that are headings of the root's level
\* or above
Terminators ==
    {i \in 2..Len(doc) : IsMarkerHeadingLine(doc[i]) /\ MarkerLevel(doc[i]) <= 1}

\* the line that ends the section, or the line after the last one
SectionEnd ==
    IF Terminators = {} THEN Len(doc) + 1
    ELSE CHOOSE i \in Terminators : \A j \in Terminators : i <= j

\* the task headings of the section, by line
TaskHeadingsInSection ==
    {i \in 2..(SectionEnd - 1) : IsMarkerHeadingLine(doc[i]) /\ MarkerLevel(doc[i]) = 2}

\* the tasks opened so far: the finalized ones and the one being assembled
TasksOpened ==
    Len(tasks) + (IF pc \in {"parseTaskBody", "parseTaskValidate"} THEN 1 ELSE 0)

\* C16: the first heading of level <= rootLevel after the root heading ends
\* the section: the parser never opens more tasks than there are task
\* headings before that line, and a section that holds no task heading
\* before its terminating heading gives no tasks and no error.
C16_SectionEnd ==
    SectionDoc =>
        /\ TasksOpened <= Cardinality(TaskHeadingsInSection)
        /\ (pc = "Done" /\ Terminators # {} /\ TaskHeadingsInSection = {}) =>
              (result.err = NoErr /\ result.tasks = << >>)


\* the Names the task headings of the section give, in document order
RECURSIVE NamesFrom(_)
NamesFrom(i) ==
    IF i >= SectionEnd THEN << >>
    ELSE (IF i \in TaskHeadingsInSection
          THEN <<Trim(Join(Tail(Fields(TrimSpace(doc[i])))))>>
          ELSE << >>) \o NamesFrom(i + 1)

RECURSIVE NamesOf(_)
NamesOf(ts) == IF ts = << >> THEN << >> ELSE <<Head(ts).Name>> \o NamesOf(Tail(ts))

\* C17: the task search loses no line: when Parse succeeds, the Names of
\* the returned tasks are the texts of the headings of level rootLevel+1
\* between the root heading and the end of the section, in document order.
C17_EveryTaskHeadingOpensATask ==
    (SectionDoc /\ pc = "Done" /\ result.err = NoErr) =>
        NamesOf(result.tasks) = NamesFrom(2)


\* the Description entries an attribute line of the task documents would
\* leave if it were taken as description text
AttributeLinesAsText == {L_req, L_env2}

NoAttributeIn(description) ==
    \A i \in 1..Len(description) : description[i] \notin AttributeLinesAsText

\* C18: an attribute line of a task body outside a fenced block is always
\* taken by the attribute dispatch, also directly after a closing fence, so
\* no req or env line ever ends up in a task's Description.
C18_DispatchOrder ==
    /\ NoAttributeIn(currTask.Description)
    /\ \A k \in 1..Len(tasks) : NoAttributeIn(tasks[k].Description)


\* C19: a blank current line followed by a line made only of "-" or only of
\* "=" is not a heading: the task search and the body loop that stand on
\* such a line neither open a task nor end the task or the section, they
\* go on where they are.
C19_BlankLineIsNoHeadingText ==
    [][(/\ pc \in {"findTaskHeading", "parseTaskBody"}
        /\ ~reachedEnd
        /\ TrimSpace(currentLine) = << >>
        /\ IsUnderline(nextLine)) => pc' = pc]_vars


\* the lines of the document made only of "-" or only of "="
UnderlineLines == {i \in 1..Len(doc) : IsUnderline(doc[i])}

\* C20: once the stream is exhausted and the last line is current, there is
\* no lookahead line, so a lone final line of "-" or "=" is never read as a
\* heading underlined by itself: in a document with a single such line no
\* task is named after it.
C20_NoLookaheadAtEnd ==
    /\ reachedEnd => nextLine = << >>
    /\ Cardinality(UnderlineLines) = 1 => ~IsUnderline(currTask.Name)

====
